---- MODULE Spec2Model ----
(***************************************************************************)
(* Resilient subscription engine of the laserstream SDK.                   *)
(*                                                                         *)
(* Two implementations of the engine live in the repository and both are   *)
(* modelled, selected by the variable impl:                                *)
(*   "native" : rust/src/client.rs        (lazy stream of Result items)    *)
(*   "napi"   : javascript/napi-src/stream.rs (host callback, bytes)       *)
(* One subscription is modelled, together with the server it talks to and  *)
(* the caller holding the handle.                                          *)
(***************************************************************************)
EXTENDS Integers, Sequences, FiniteSets, TLC

(* ------------------------------ bounds -------------------------------- *)
\* attempts one behaviour may start
MaxAttempts == 2
\* updates the server may get forwarded in one behaviour
MaxDelivered == 2
\* write() calls in one behaviour
MaxWrites == 1
\* ping ticks in one attempt
MaxPings == 1

(* ------------------------- program constants -------------------------- *)
HARD_CAP_RECONNECT_ATTEMPTS == 240
FORK_DEPTH_SAFETY_MARGIN == 31

\* Option::None of the scalar request fields and of the configuration
NoneVal == -1

Impls == {"native", "napi"}

\* the subscription's id in the process-wide registry
StreamId == "s1"

\* format!("internal-{}", uuid) / format!("__internal_slot_tracker_{}", uuid)
InternalId(i) == IF i = "native" THEN "internal-1" ELSE "__internal_slot_tracker_1"

\* k.starts_with("__internal_slot_tracker_")
HasTrackerPrefix(k) == k = "__internal_slot_tracker_1"

\* the value new_bytes / subscribe store under the internal id
TrackerFilter == "tracker"

Min(a, b) == IF a < b THEN a ELSE b

\* u64::saturating_sub
SaturatingSub(a, b) == IF a >= b THEN a - b ELSE 0

\* i32::wrapping_add(1)
WrappingInc(x) == IF x = 2147483647 THEN (-2147483647) - 1 ELSE x + 1

Range(s) == {s[i] : i \in DOMAIN s}

(* ----------------------------- requests ------------------------------- *)
\* a map is the set of its <<key, value>> entries, one entry per key
EmptyMap == {}

Keys(m) == {e[1] : e \in m}

\* HashMap::get of a key the map holds
Get(m, k) == (CHOOSE e \in m : e[1] = k)[2]

\* on a key conflict the entry of b stays
ExtendKeepBase(b, u) == b \cup {e \in u : e[1] \notin Keys(b)}

\* HashMap::extend: entries of u are inserted, u wins on a key conflict
Extend(b, u) == {e \in b : e[1] \notin Keys(u)} \cup u

\* an entry already held under k stays
InsertIfAbsent(m, k, v) == IF k \in Keys(m) THEN m ELSE m \cup {<<k, v>>}

\* HashMap::insert
Insert(m, k, v) == {e \in m : e[1] # k} \cup {<<k, v>>}

\* SubscribeRequest::default()
DefaultRequest ==
    [accounts |-> EmptyMap, slots |-> EmptyMap, transactions |-> EmptyMap,
     transactions_status |-> EmptyMap, blocks |-> EmptyMap,
     blocks_meta |-> EmptyMap, entry |-> EmptyMap,
     accounts_data_slice |-> <<>>, commitment |-> NoneVal,
     from_slot |-> NoneVal, ping |-> NoneVal]

\* a merger that leaves the cached request as it was
MergeDiscarded(base, update, internal_slot_sub_id, replay_enabled) == base

\* rust/src/client.rs merge_subscribe_requests
MergeNative(base, update, internal_slot_sub_id, replay_enabled) ==
    LET keep == replay_enabled /\ internal_slot_sub_id # ""
                /\ internal_slot_sub_id \in Keys(base.slots)
        slots1 == Extend(base.slots, update.slots)
    IN [accounts |-> Extend(base.accounts, update.accounts),
        slots |-> IF keep
                  THEN Insert(slots1, internal_slot_sub_id,
                              Get(base.slots, internal_slot_sub_id))
                  ELSE slots1,
        transactions |-> Extend(base.transactions, update.transactions),
        transactions_status |->
            Extend(base.transactions_status, update.transactions_status),
        blocks |-> Extend(base.blocks, update.blocks),
        blocks_meta |-> Extend(base.blocks_meta, update.blocks_meta),
        entry |-> Extend(base.entry, update.entry),
        accounts_data_slice |->
            base.accounts_data_slice \o update.accounts_data_slice,
        commitment |-> IF update.commitment # NoneVal
                       THEN update.commitment ELSE base.commitment,
        from_slot |-> IF update.from_slot # NoneVal
                      THEN update.from_slot ELSE base.from_slot,
        ping |-> base.ping]

\* javascript/napi-src/stream.rs StreamInner::merge_subscribe_requests:
\* every map and the slice list are replaced, the tracker entry is restored
MergeNapi(current, modification) ==
    LET found == {k \in Keys(current.slots) : HasTrackerPrefix(k)}
    IN [accounts |-> modification.accounts,
        slots |-> IF found # {}
                  THEN LET k == CHOOSE x \in found : TRUE
                       IN Insert(modification.slots, k, Get(current.slots, k))
                  ELSE modification.slots,
        transactions |-> modification.transactions,
        transactions_status |-> modification.transactions_status,
        blocks |-> modification.blocks,
        blocks_meta |-> modification.blocks_meta,
        entry |-> modification.entry,
        accounts_data_slice |-> modification.accounts_data_slice,
        commitment |-> IF modification.commitment # NoneVal
                       THEN modification.commitment ELSE current.commitment,
        from_slot |-> current.from_slot,
        ping |-> current.ping]

\* the request the engine caches at construction
PrepareRequest(i, request, replay_enabled) ==
    LET r1 == IF replay_enabled
              THEN [request EXCEPT
                      !.slots = Insert(request.slots, InternalId(i), TrackerFilter)]
              ELSE request
    IN IF ~replay_enabled THEN [r1 EXCEPT !.from_slot = NoneVal] ELSE r1

(* ------------------------- supervisor helpers ------------------------- *)
\* config.max_reconnect_attempts.unwrap_or(HARD_CAP).min(HARD_CAP)
EffectiveMaxAttempts(cfg) ==
    IF cfg = NoneVal THEN HARD_CAP_RECONNECT_ATTEMPTS
    ELSE Min(cfg, HARD_CAP_RECONNECT_ATTEMPTS)

\* off by one: the cap is taken one failure early
CapExhaustedEarly(attempts, cap) == attempts + 1 >= cap

\* if reconnect_attempts >= effective_max_attempts
CapExhausted(attempts, cap) == attempts >= cap

\* native: match commitment_level { 0 => s - 31, 1 | 2 => s, _ => s - 31 }
NativeResumeSlot(s, c) ==
    IF c = 0 THEN SaturatingSub(s, 31)
    ELSE IF c \in {1, 2} THEN s
    ELSE SaturatingSub(s, 31)

\* napi: match commitment_level { 0 => s - MARGIN, 1 | 2 => s, _ => s }
NapiResumeSlot(s, c) ==
    IF c = 0 THEN SaturatingSub(s, FORK_DEPTH_SAFETY_MARGIN)
    ELSE s

\* an attempt request that is sent as cached when no resume point applies
AttemptRequestAsCached(cur, attempts, slot, replay_enabled) ==
    IF attempts > 0 /\ slot > 0 /\ replay_enabled
    THEN [cur EXCEPT !.from_slot =
            NativeResumeSlot(slot, IF cur.commitment = NoneVal
                                   THEN 0 ELSE cur.commitment)]
    ELSE cur

\* native: the request of an attempt, from the cached one
NativeAttemptRequest(cur, attempts, slot, replay_enabled) ==
    IF attempts > 0 /\ slot > 0 /\ replay_enabled
    THEN [cur EXCEPT !.from_slot =
            NativeResumeSlot(slot, IF cur.commitment = NoneVal
                                   THEN 0 ELSE cur.commitment)]
    ELSE IF ~replay_enabled THEN [cur EXCEPT !.from_slot = NoneVal]
    ELSE cur

\* napi: the resume point written into the cached request after an attempt
NapiResumeRequest(cur, slot, level, replay_enabled) ==
    IF slot > 0 /\ replay_enabled
    THEN [cur EXCEPT !.from_slot = NapiResumeSlot(slot, level)]
    ELSE [cur EXCEPT !.from_slot = NoneVal]

(* ------------------------- updates and filters ------------------------ *)
\* slot numbers the server reports
Slots == {20, 50}

\* duplicate-free, non-empty lists of the filter names in K
FilterLists(K) ==
    {f \in UNION {[1..n -> K] : n \in 1..Cardinality(K)} :
        \A a, b \in DOMAIN f : a # b => f[a] # f[b]}

\* the updates a server holding subscription sub may emit: an update names
\* the filters of its own kind that matched it
ServerMessages(sub) ==
    {[variant |-> "Slot", filters |-> f, slot |-> n] :
        f \in FilterLists(Keys(sub.slots)), n \in Slots}
    \cup {[variant |-> "Transaction", filters |-> f, slot |-> 0] :
        f \in FilterLists(Keys(sub.transactions))}
    \cup {[variant |-> "Account", filters |-> f, slot |-> 0] :
        f \in FilterLists(Keys(sub.accounts))}
    \cup {[variant |-> "Ping", filters |-> <<>>, slot |-> 0],
          [variant |-> "Pong", filters |-> <<>>, slot |-> 0]}

NoMsg == [variant |-> "None", filters |-> <<>>, slot |-> 0]

\* the exclusive-match test never succeeds
NeverOnlyInternal(filters, id) == FALSE

\* any list naming the internal id counts as internal-only
ContainsInternal(filters, id) == id \in Range(filters)

\* filters.len() == 1 && filters.contains(&internal_slot_sub_id)
OnlyInternal(filters, id) == Len(filters) = 1 /\ id \in Range(filters)

\* the filter list is passed on untouched
KeepAllFilters(filters, id) == filters

\* native: clean_update.filters.retain(|f| f != &internal_slot_sub_id)
NativeCleanFilters(filters, id) == SelectSeq(filters, LAMBDA f : f # id)

\* Vec::swap_remove(pos)
SwapRemove(s, pos) ==
    [i \in 1..(Len(s) - 1) |-> IF i = pos THEN s[Len(s)] ELSE s[i]]

\* the last entry is removed instead of the internal one
DropLastFilter(filters, id) == SubSeq(filters, 1, Len(filters) - 1)

\* napi: if let Some(pos) = filters.iter().position(..) { swap_remove(pos) }
NapiCleanFilters(filters, id) ==
    IF id \in Range(filters)
    THEN SwapRemove(filters,
                    CHOOSE p \in DOMAIN filters :
                        /\ filters[p] = id
                        /\ \A q \in DOMAIN filters : filters[q] = id => p <= q)
    ELSE filters

\* what the caller receives
UpdateItem(m, filters, att) ==
    [kind |-> "update", variant |-> m.variant, filters |-> filters,
     slot |-> m.slot, att |-> att]

ErrorItem(v, att) ==
    [kind |-> "error", variant |-> v, filters |-> <<>>, slot |-> 0, att |-> att]

\* the per-attempt error is surfaced by both engines
StreamErrorItemsYielded(i, att) == <<ErrorItem("Status", att)>>

\* native: yield Err(LaserstreamError::Status(..)) on a mid-stream error;
\* napi: the error is only logged
StreamErrorItems(i, att) ==
    IF i = "native" THEN <<ErrorItem("Status", att)>> ELSE <<>>

NumUpdates(log) == Cardinality({k \in DOMAIN log : log[k].kind = "update"})

\* a design in which a forwarded update overtakes what was handed over before
DeliverFirst(log, item) == <<item>> \o log

\* `yield Ok(update)` / `ts_callback.call(Ok(bytes), Blocking)`: the caller
\* takes the items in the order in which they were handed over
Deliver(log, item) == Append(log, item)

\* a loop in which only an inbound Ping is answered without being forwarded
IsPingOnly(m) == m.variant = "Ping"

\* the arms `Some(UpdateOneof::Ping(_))` and `Some(UpdateOneof::Pong(_))`:
\* both end in `continue` before anything is forwarded
IsControl(m) == m.variant \in {"Ping", "Pong"}

(* ------------------------------ inputs -------------------------------- *)
\* requests the caller subscribes with
InitialRequests ==
    {DefaultRequest,
     [DefaultRequest EXCEPT !.slots = {<<"all", "f1">>}, !.commitment = 1],
     [DefaultRequest EXCEPT !.transactions = {<<"tx", "f1">>},
                            !.commitment = 0, !.from_slot = 7]}

\* requests the caller pushes through write()
WriteRequests ==
    {[DefaultRequest EXCEPT !.transactions = {<<"tx", "f2">>},
                            !.from_slot = 9],
     [DefaultRequest EXCEPT !.slots = {<<"all", "f2">>}, !.commitment = 1]}

\* configured max_reconnect_attempts
MaxReconnectChoices == {0, 2, 300}

(* ------------------------------- state -------------------------------- *)
VARIABLES
    impl,                   \* which engine
    replay,                 \* config.replay
    max_reconnect_attempts, \* configured cap
    config_valid,           \* the endpoint URI and the credential parse
    current_request,        \* cached request
    attempt_request,        \* attempt_request / request_snapshot
    commitment_level,       \* napi: level read when the task starts
    tracked_slot,
    made_progress,          \* napi: progress flag
    reconnect_attempts,
    pc,                     \* position of the supervisor
    inbound,                \* inbound stream of the attempt: open / ended
    ping_id,
    server_sub,             \* subscription in force at the server
    write_rx,               \* modification channel
    delivered,              \* items the caller has received, in order
    cancel_sent,            \* napi: cancel_tx taken and the signal sent
    has_handle,             \* the caller holds the handle
    registry,               \* napi: STREAM_REGISTRY keys
    active_stream_count,    \* napi: ACTIVE_STREAM_COUNT
    attemptNo,              \* attempts started
    att_fwd,                \* the current attempt forwarded an update
    fails,                  \* consecutive failed attempts without a forward
    outcome,                \* how the last finished attempt ended
    writes,                 \* write() calls made
    write_result,           \* what the last write() call returned
    shut_down,              \* napi: shutdown_all_streams() has returned
    write_idle,             \* the last write() was accepted with no session open
    ping_failed,            \* a periodic Ping of this attempt could not be sent
    lastIn                  \* the inbound message handled by this step

vars == <<impl, replay, max_reconnect_attempts, config_valid, current_request,
          attempt_request, commitment_level, tracked_slot, made_progress,
          reconnect_attempts, pc, inbound, ping_id, server_sub, write_rx,
          delivered, cancel_sent, has_handle, registry, active_stream_count,
          attemptNo, att_fwd, fails, outcome, writes, write_result, shut_down,
          write_idle, ping_failed, lastIn>>

config_vars == <<impl, replay, max_reconnect_attempts, config_valid>>
registry_vars == <<registry, active_stream_count>>

Init ==
    /\ impl \in Impls
    /\ replay \in BOOLEAN
    /\ max_reconnect_attempts \in MaxReconnectChoices
    /\ config_valid \in BOOLEAN
    /\ \E r \in InitialRequests :
         current_request = IF impl = "napi"
                           THEN PrepareRequest(impl, r, replay) ELSE r
    /\ attempt_request = DefaultRequest
    /\ commitment_level = 0
    /\ tracked_slot = 0
    /\ made_progress = FALSE
    /\ reconnect_attempts = 0
    /\ pc = "spawned"
    /\ inbound = "none"
    /\ ping_id = 0
    /\ server_sub = DefaultRequest
    /\ write_rx = <<>>
    /\ delivered = <<>>
    /\ cancel_sent = FALSE
    /\ has_handle = (impl = "native")
    /\ registry = {}
    /\ active_stream_count = 0
    /\ attemptNo = 0
    /\ att_fwd = FALSE
    /\ fails = 0
    /\ outcome = "none"
    /\ writes = 0
    /\ write_result = "none"
    /\ shut_down = FALSE
    /\ write_idle = FALSE
    /\ ping_failed = FALSE
    /\ lastIn = NoMsg

(* ------------------------------ registry ------------------------------ *)
\* ACTIVE_STREAM_COUNT is an AtomicU32; 4294967295 is beyond the integers
\* the checker holds, so -1 stands for it (0u32.wrapping_sub(1))
FetchSub1(c) == IF c = 0 THEN -1 ELSE c - 1

\* a registration that leaves the count as it was
FetchAddNone(c) == c

\* AtomicU32::fetch_add(1)
FetchAdd1(c) == IF c = -1 THEN 0 ELSE c + 1

\* an unregister that decrements the count whether or not the id was present
UnregisterAlways(id) ==
    /\ registry' = registry \ {id}
    /\ active_stream_count' = FetchSub1(active_stream_count)

\* lib.rs unregister_stream
UnregisterStream(id) ==
    /\ registry' = registry \ {id}
    /\ active_stream_count' =
         IF id \in registry THEN FetchSub1(active_stream_count)
         ELSE active_stream_count

\* client.rs subscribe_internal_bytes: register_stream, then the handle is
\* returned to the caller; the supervisor task is already spawned
Register ==
    /\ impl = "napi"
    /\ ~has_handle
    /\ registry' = registry \cup {StreamId}
    /\ active_stream_count' = FetchAdd1(active_stream_count)
    /\ has_handle' = TRUE
    /\ lastIn' = NoMsg
    /\ UNCHANGED <<config_vars, ping_failed, write_result, shut_down,
                   write_idle, current_request, attempt_request,
                   commitment_level, tracked_slot, made_progress,
                   reconnect_attempts, pc, inbound, ping_id, server_sub,
                   write_rx, delivered, cancel_sent, attemptNo, att_fwd,
                   fails, outcome, writes>>

(* ------------------------------- handle ------------------------------- *)
\* lib.rs StreamHandle::cancel: unregister_stream, then StreamInner::cancel
Cancel ==
    /\ impl = "napi"
    /\ has_handle
    /\ UnregisterStream(StreamId)
    /\ cancel_sent' = TRUE
    /\ lastIn' = NoMsg
    /\ UNCHANGED <<config_vars, ping_failed, write_result, shut_down,
                   write_idle, current_request, attempt_request,
                   commitment_level, tracked_slot, made_progress,
                   reconnect_attempts, pc, inbound, ping_id, server_sub,
                   write_rx, delivered, has_handle, attemptNo, att_fwd, fails,
                   outcome, writes>>

\* lib.rs shutdown_all_streams: cancel every registered stream, clear the
\* registry, store 0 in the count (all under the registry lock)
ShutdownAllStreams ==
    /\ impl = "napi"
    /\ registry # {}
    /\ cancel_sent' = (cancel_sent \/ StreamId \in registry)
    /\ registry' = {}
    /\ active_stream_count' = 0
    /\ shut_down' = TRUE
    /\ lastIn' = NoMsg
    /\ UNCHANGED <<config_vars, ping_failed, write_result, write_idle,
                   current_request, attempt_request, commitment_level,
                   tracked_slot, made_progress, reconnect_attempts, pc,
                   inbound, ping_id, server_sub, write_rx, delivered,
                   has_handle, attemptNo, att_fwd, fails, outcome, writes>>

\* a modification channel whose receiving end lives only while no retry delay
\* is being waited out
ChannelClosedOutsideSession == pc \in {"delaying", "exited"}

\* the receiving end of the modification channel is owned by the supervisor
\* (moved into the stream body / the spawned task) and is dropped when it ends
ChannelClosed == pc = "exited"

\* StreamHandle::write / StreamInner::write: post to the modification
\* channel; the unbounded send fails only on a closed channel
Write ==
    /\ has_handle
    /\ writes < MaxWrites
    /\ IF ChannelClosed
       THEN /\ write_result' = "err"
            /\ UNCHANGED write_rx
            /\ UNCHANGED write_idle
       ELSE /\ \E w \in WriteRequests : write_rx' = Append(write_rx, w)
            /\ write_result' = "ok"
            /\ write_idle' = (pc \in {"connecting", "delaying"})
    /\ writes' = writes + 1
    /\ lastIn' = NoMsg
    /\ UNCHANGED <<config_vars, ping_failed, shut_down, current_request,
                   attempt_request, commitment_level, tracked_slot,
                   made_progress, reconnect_attempts, pc, inbound, ping_id,
                   server_sub, delivered, cancel_sent, has_handle,
                   registry_vars, attemptNo, att_fwd, fails, outcome>>

\* the run of failed attempts that forwarded nothing, after an attempt ended:
\* connection and mid-stream errors extend it, a forward or a graceful end
\* starts it anew
FailsAfter(how) ==
    IF how = "end" \/ att_fwd THEN 0
    ELSE IF how \in {"connect_error", "stream_error"} THEN fails + 1
    ELSE fails

(* ------------------------- native supervisor -------------------------- *)
\* subscribe: the prelude of the stream body, run when first polled
NativeStart ==
    /\ impl = "native"
    /\ pc = "spawned"
    /\ current_request' = PrepareRequest(impl, current_request, replay)
    /\ pc' = "loop"
    /\ lastIn' = NoMsg
    /\ UNCHANGED <<config_vars, ping_failed, write_result, shut_down,
                   write_idle, attempt_request, commitment_level,
                   tracked_slot, made_progress, reconnect_attempts, inbound,
                   ping_id, server_sub, write_rx, delivered, cancel_sent,
                   has_handle, registry_vars, attemptNo, att_fwd, fails,
                   outcome, writes>>

\* top of the loop: build attempt_request
NativeAttemptBegin ==
    /\ impl = "native"
    /\ pc = "loop"
    /\ attemptNo < MaxAttempts
    /\ attempt_request' = NativeAttemptRequest(current_request,
                              reconnect_attempts, tracked_slot, replay)
    /\ pc' = "connecting"
    /\ attemptNo' = attemptNo + 1
    /\ att_fwd' = FALSE
    /\ lastIn' = NoMsg
    /\ UNCHANGED <<config_vars, ping_failed, write_result, shut_down,
                   write_idle, current_request, commitment_level,
                   tracked_slot, made_progress, reconnect_attempts, inbound,
                   ping_id, server_sub, write_rx, delivered, cancel_sent,
                   has_handle, registry_vars, fails, outcome, writes>>

\* connect_and_subscribe_once returned Err: the transport failed, or the
\* credential or the endpoint did not parse (the `?` on its first lines)
NativeConnectFail ==
    /\ impl = "native"
    /\ pc = "connecting"
    /\ reconnect_attempts' = reconnect_attempts + 1
    /\ IF CapExhausted(reconnect_attempts + 1,
                       EffectiveMaxAttempts(max_reconnect_attempts))
       THEN /\ delivered' =
                 Append(delivered, ErrorItem("MaxReconnectAttempts", attemptNo))
            /\ pc' = "exited"
       ELSE /\ pc' = "delaying"
            /\ UNCHANGED delivered
    /\ outcome' = "connect_error"
    /\ fails' = FailsAfter("connect_error")
    /\ lastIn' = NoMsg
    /\ UNCHANGED <<config_vars, ping_failed, write_result, shut_down,
                   write_idle, current_request, attempt_request,
                   commitment_level, tracked_slot, made_progress, inbound,
                   ping_id, server_sub, write_rx, cancel_sent, has_handle,
                   registry_vars, attemptNo, att_fwd, writes>>

\* connect_and_subscribe_once returned Ok: the first frame is at the server
NativeConnectOk ==
    /\ impl = "native"
    /\ pc = "connecting"
    /\ config_valid
    /\ reconnect_attempts' = 0
    /\ pc' = "streaming"
    /\ inbound' = "open"
    /\ ping_id' = 0
    /\ server_sub' = attempt_request
    /\ ping_failed' = FALSE
    /\ lastIn' = NoMsg
    /\ UNCHANGED <<config_vars, write_result, shut_down, write_idle,
                   current_request, attempt_request, commitment_level,
                   tracked_slot, made_progress, write_rx, delivered,
                   cancel_sent, has_handle, registry_vars, attemptNo, att_fwd,
                   fails, outcome, writes>>

\* the attempt ends by break: the 5 s sleep follows
NativeBreak(how) ==
    /\ pc' = "delaying"
    /\ outcome' = how
    /\ fails' = FailsAfter(how)

\* stream.next() yielded Ok(update)
NativeRecv ==
    /\ impl = "native"
    /\ pc = "streaming"
    /\ inbound = "open"
    /\ \E m \in ServerMessages(server_sub), pong_ok \in BOOLEAN :
         LET id == InternalId(impl)
             suppressed == m.variant = "Slot" /\ OnlyInternal(m.filters, id)
             clean == IF replay THEN NativeCleanFilters(m.filters, id)
                      ELSE m.filters
             yields == /\ ~IsControl(m)
                       /\ ~suppressed
                       /\ (replay => clean # <<>>)
         IN /\ lastIn' = m
            /\ (m.variant = "Ping" \/ pong_ok)
            /\ tracked_slot' = IF m.variant = "Slot" /\ replay
                               THEN m.slot ELSE tracked_slot
            /\ IF m.variant = "Ping" /\ ~pong_ok
               THEN NativeBreak("send_error")
               ELSE UNCHANGED <<pc, outcome>>
                    /\ fails' = IF yields THEN 0 ELSE fails
            /\ IF yields
               THEN /\ NumUpdates(delivered) < MaxDelivered
                    /\ delivered' =
                         Deliver(delivered, UpdateItem(m, clean, attemptNo))
                    /\ att_fwd' = TRUE
               ELSE UNCHANGED <<delivered, att_fwd>>
    /\ UNCHANGED <<config_vars, ping_failed, write_result, shut_down,
                   write_idle, current_request, attempt_request,
                   commitment_level, made_progress, reconnect_attempts,
                   inbound, ping_id, server_sub, write_rx, cancel_sent,
                   has_handle, registry_vars, attemptNo, writes>>

\* stream.next() yielded Err(status): the error is yielded, then break
NativeStreamErr ==
    /\ impl = "native"
    /\ pc = "streaming"
    /\ inbound = "open"
    /\ delivered' = delivered \o StreamErrorItems(impl, attemptNo)
    /\ NativeBreak("stream_error")
    /\ lastIn' = NoMsg
    /\ UNCHANGED <<config_vars, ping_failed, write_result, shut_down,
                   write_idle, current_request, attempt_request,
                   commitment_level, tracked_slot, made_progress,
                   reconnect_attempts, inbound, ping_id, server_sub, write_rx,
                   cancel_sent, has_handle, registry_vars, attemptNo, att_fwd,
                   writes>>

\* stream.next() yielded None
NativeStreamEnd ==
    /\ impl = "native"
    /\ pc = "streaming"
    /\ inbound = "open"
    /\ inbound' = "ended"
    /\ NativeBreak("end")
    /\ lastIn' = NoMsg
    /\ UNCHANGED <<config_vars, ping_failed, write_result, shut_down,
                   write_idle, current_request, attempt_request,
                   commitment_level, tracked_slot, made_progress,
                   reconnect_attempts, ping_id, server_sub, write_rx,
                   delivered, cancel_sent, has_handle, registry_vars,
                   attemptNo, att_fwd, writes>>

\* write_rx.recv() yielded a request: merge, then forward to the server
NativeWriteRecv ==
    /\ impl = "native"
    /\ pc = "streaming"
    /\ write_rx # <<>>
    /\ current_request' = MergeNative(current_request, Head(write_rx),
                                      InternalId(impl), replay)
    /\ write_rx' = Tail(write_rx)
    /\ \E send_ok \in BOOLEAN :
         IF send_ok
         THEN /\ server_sub' = Head(write_rx)
              /\ UNCHANGED <<pc, outcome, fails>>
         ELSE /\ NativeBreak("send_error")
              /\ UNCHANGED server_sub
    /\ lastIn' = NoMsg
    /\ UNCHANGED <<config_vars, ping_failed, write_result, shut_down,
                   write_idle, attempt_request, commitment_level,
                   tracked_slot, made_progress, reconnect_attempts, inbound,
                   ping_id, delivered, cancel_sent, has_handle, registry_vars,
                   attemptNo, att_fwd, writes>>

(* -------------------------- napi supervisor --------------------------- *)
\* new_bytes: the spawned task starts and reads the commitment level once
NapiTaskStart ==
    /\ impl = "napi"
    /\ pc = "spawned"
    /\ commitment_level' = IF current_request.commitment = NoneVal
                           THEN 0 ELSE current_request.commitment
    /\ pc' = "loop"
    /\ lastIn' = NoMsg
    /\ UNCHANGED <<config_vars, ping_failed, write_result, shut_down,
                   write_idle, current_request, attempt_request, tracked_slot,
                   made_progress, reconnect_attempts, inbound, ping_id,
                   server_sub, write_rx, delivered, cancel_sent, has_handle,
                   registry_vars, attemptNo, att_fwd, fails, outcome, writes>>

\* top of the loop: reset the progress flag, snapshot the cached request,
\* enter the select over cancel_rx and the session.  With the signal already
\* sent the session's first poll only starts to connect and is pending, so
\* the select takes the cancel arm (NapiCancelObserved).
NapiAttemptBegin ==
    /\ impl = "napi"
    /\ pc = "loop"
    /\ ~cancel_sent
    /\ attemptNo < MaxAttempts
    /\ made_progress' = FALSE
    /\ attempt_request' = current_request
    /\ pc' = "connecting"
    /\ attemptNo' = attemptNo + 1
    /\ att_fwd' = FALSE
    /\ lastIn' = NoMsg
    /\ UNCHANGED <<config_vars, ping_failed, write_result, shut_down,
                   write_idle, current_request, commitment_level,
                   tracked_slot, reconnect_attempts, inbound, ping_id,
                   server_sub, write_rx, delivered, cancel_sent, has_handle,
                   registry_vars, fails, outcome, writes>>

\* the cancellation signal is looked at only while a session is polled
CancelPointsInSession == {"connecting", "streaming"}

\* where the supervisor polls cancel_rx: the select at the top of the loop,
\* entered before the session connects and held while it connects and streams
CancelPoints == {"loop", "connecting", "streaming"}

\* select arm `_ = &mut cancel_rx`: break, then unregister_stream
NapiCancelObserved ==
    /\ impl = "napi"
    /\ pc \in CancelPoints
    /\ cancel_sent
    /\ pc' = "exited"
    /\ UnregisterStream(StreamId)
    /\ outcome' = "cancelled"
    /\ lastIn' = NoMsg
    /\ UNCHANGED <<config_vars, ping_failed, write_result, shut_down,
                   write_idle, current_request, attempt_request,
                   commitment_level, tracked_slot, made_progress,
                   reconnect_attempts, inbound, ping_id, server_sub, write_rx,
                   delivered, cancel_sent, has_handle, attemptNo, att_fwd,
                   fails, writes>>

\* select arm of the session, result = Err(e): count, surface the terminal
\* error at the cap, else write the resume point and sleep; cur is the cached
\* request and log the items the caller has received at that moment
NapiSessionErr(how, cur, log) ==
    LET n == IF made_progress THEN 1 ELSE reconnect_attempts + 1
    IN /\ reconnect_attempts' = n
       /\ IF CapExhausted(n, EffectiveMaxAttempts(max_reconnect_attempts))
          THEN /\ delivered' =
                    Append(log, ErrorItem("ConnectionFailed", attemptNo))
               /\ pc' = "exited"
               /\ UnregisterStream(StreamId)
               /\ current_request' = cur
          ELSE /\ current_request' =
                    NapiResumeRequest(cur, tracked_slot, commitment_level,
                                      replay)
               /\ pc' = "delaying"
               /\ delivered' = log
               /\ UNCHANGED registry_vars
       /\ outcome' = how
       /\ fails' = FailsAfter(how)

\* connect_and_stream_bytes failed before the stream was open: the
\* transport failed, or the credential or the endpoint did not parse
NapiConnectFail ==
    /\ impl = "napi"
    /\ pc = "connecting"
    /\ NapiSessionErr("connect_error", current_request, delivered)
    /\ lastIn' = NoMsg
    /\ UNCHANGED <<config_vars, ping_failed, write_result, shut_down,
                   write_idle, attempt_request, commitment_level,
                   tracked_slot, made_progress, inbound, ping_id, server_sub,
                   write_rx, cancel_sent, has_handle, attemptNo, att_fwd,
                   writes>>

\* the stream is open: the snapshot was sent as the first frame
NapiConnectOk ==
    /\ impl = "napi"
    /\ pc = "connecting"
    /\ config_valid
    /\ pc' = "streaming"
    /\ inbound' = "open"
    /\ ping_id' = 0
    /\ server_sub' = attempt_request
    /\ ping_failed' = FALSE
    /\ lastIn' = NoMsg
    /\ UNCHANGED <<config_vars, write_result, shut_down, write_idle,
                   current_request, attempt_request, commitment_level,
                   tracked_slot, made_progress, reconnect_attempts, write_rx,
                   delivered, cancel_sent, has_handle, registry_vars,
                   attemptNo, att_fwd, fails, outcome, writes>>

\* stream.next() yielded Some(Ok(message)).  The session is polled by the
\* select in random order with cancel_rx, and on another thread than
\* cancel(), so a sent cancellation does not disable this step.
NapiRecv ==
    /\ impl = "napi"
    /\ pc = "streaming"
    /\ inbound = "open"
    /\ \E m \in ServerMessages(server_sub) :
         LET id == InternalId(impl)
             suppressed == m.variant = "Slot" /\ OnlyInternal(m.filters, id)
             clean == IF m.variant = "Slot"
                      THEN NapiCleanFilters(m.filters, id) ELSE m.filters
             forwards == ~IsControl(m) /\ ~suppressed
         IN /\ lastIn' = m
            /\ tracked_slot' = IF m.variant = "Slot"
                               THEN m.slot ELSE tracked_slot
            /\ IF forwards
               THEN /\ NumUpdates(delivered) < MaxDelivered
                    /\ made_progress' = TRUE
                    /\ delivered' =
                         Deliver(delivered, UpdateItem(m, clean, attemptNo))
                    /\ att_fwd' = TRUE
                    /\ fails' = 0
               ELSE UNCHANGED <<made_progress, delivered, att_fwd, fails>>
    /\ UNCHANGED <<config_vars, ping_failed, write_result, shut_down,
                   write_idle, current_request, attempt_request,
                   commitment_level, reconnect_attempts, pc, inbound, ping_id,
                   server_sub, write_rx, cancel_sent, has_handle,
                   registry_vars, attemptNo, outcome, writes>>

\* stream.next() yielded Some(Err(e)): the session returns Err
NapiStreamErr ==
    /\ impl = "napi"
    /\ pc = "streaming"
    /\ inbound = "open"
    /\ NapiSessionErr("stream_error", current_request,
                      delivered \o StreamErrorItems(impl, attemptNo))
    /\ lastIn' = NoMsg
    /\ UNCHANGED <<config_vars, ping_failed, write_result, shut_down,
                   write_idle, attempt_request, commitment_level,
                   tracked_slot, made_progress, inbound, ping_id, server_sub,
                   write_rx, cancel_sent, has_handle, attemptNo, att_fwd,
                   writes>>

\* stream.next() yielded None: the pattern Some(result) fails and the arm is
\* disabled; the ping arm's pattern always matches, so the `else` arm (the
\* only way to Ok(())) is never taken and the session keeps looping
NapiStreamEnd ==
    /\ impl = "napi"
    /\ pc = "streaming"
    /\ inbound = "open"
    /\ inbound' = "ended"
    /\ lastIn' = NoMsg
    /\ UNCHANGED <<config_vars, ping_failed, write_result, shut_down,
                   write_idle, current_request, attempt_request,
                   commitment_level, tracked_slot, made_progress,
                   reconnect_attempts, pc, ping_id, server_sub, write_rx,
                   delivered, cancel_sent, has_handle, registry_vars,
                   attemptNo, att_fwd, fails, outcome, writes>>

\* write_rx.recv() yielded a request: merge under the mutex, then forward;
\* a failed send returns Err from the session
NapiWriteRecv ==
    /\ impl = "napi"
    /\ pc = "streaming"
    /\ write_rx # <<>>
    /\ write_rx' = Tail(write_rx)
    /\ \E send_ok \in BOOLEAN :
         LET merged == MergeNapi(current_request, Head(write_rx))
         IN IF send_ok
            THEN /\ current_request' = merged
                 /\ server_sub' = Head(write_rx)
                 /\ UNCHANGED <<pc, outcome, fails, reconnect_attempts,
                                delivered, registry_vars>>
            ELSE /\ NapiSessionErr("send_error", merged, delivered)
                 /\ UNCHANGED server_sub
    /\ lastIn' = NoMsg
    /\ UNCHANGED <<config_vars, ping_failed, write_result, shut_down,
                   write_idle, attempt_request, commitment_level,
                   tracked_slot, made_progress, inbound, ping_id, cancel_sent,
                   has_handle, attemptNo, att_fwd, writes>>

(* ------------------------------- shared ------------------------------- *)
\* ping_interval.tick(): send Ping{ping_id}; the result of the send is
\* discarded (let _ =) in both engines
PingTick ==
    /\ pc = "streaming"
    /\ ping_id < MaxPings
    /\ ping_id' = WrappingInc(ping_id)
    /\ \E send_ok \in BOOLEAN : ping_failed' = (ping_failed \/ ~send_ok)
    /\ lastIn' = NoMsg
    /\ UNCHANGED <<config_vars, write_result, shut_down, write_idle,
                   current_request, attempt_request, commitment_level,
                   tracked_slot, made_progress, reconnect_attempts, pc,
                   inbound, server_sub, write_rx, delivered, cancel_sent,
                   has_handle, registry_vars, attemptNo, att_fwd, fails,
                   outcome, writes>>

\* sleep(FIXED_RECONNECT_INTERVAL_MS) returned: back to the top of the loop
DelayElapsed ==
    /\ pc = "delaying"
    /\ pc' = "loop"
    /\ lastIn' = NoMsg
    /\ UNCHANGED <<config_vars, ping_failed, write_result, shut_down,
                   write_idle, current_request, attempt_request,
                   commitment_level, tracked_slot, made_progress,
                   reconnect_attempts, inbound, ping_id, server_sub, write_rx,
                   delivered, cancel_sent, has_handle, registry_vars,
                   attemptNo, att_fwd, fails, outcome, writes>>

Next ==
    \/ Register
    \/ Cancel
    \/ ShutdownAllStreams
    \/ Write
    \/ NativeStart
    \/ NativeAttemptBegin
    \/ NativeConnectFail
    \/ NativeConnectOk
    \/ NativeRecv
    \/ NativeStreamErr
    \/ NativeStreamEnd
    \/ NativeWriteRecv
    \/ NapiTaskStart
    \/ NapiAttemptBegin
    \/ NapiCancelObserved
    \/ NapiConnectFail
    \/ NapiConnectOk
    \/ NapiRecv
    \/ NapiStreamErr
    \/ NapiStreamEnd
    \/ NapiWriteRecv
    \/ PingTick
    \/ DelayElapsed

Spec == Init /\ [][Next]_vars

\* the tokio runtime keeps polling a spawned task that is ready: the task
\* starts, a timer that has expired wakes it, and the select (random order of
\* its branches) takes the ready cancel arm sooner or later
FairSpec ==
    /\ Spec
    /\ WF_vars(NapiTaskStart)
    /\ WF_vars(DelayElapsed)
    /\ WF_vars(NapiCancelObserved)

(* --------------------------- merger calls ----------------------------- *)
\* the seven named filter maps of a request
MapFields ==
    {"accounts", "slots", "transactions", "transactions_status", "blocks",
     "blocks_meta", "entry"}

\* r with k -> v inserted in each of the seven maps
WithEntryInEveryMap(r, k, v) ==
    [r EXCEPT !.accounts = Insert(@, k, v), !.slots = Insert(@, k, v),
              !.transactions = Insert(@, k, v),
              !.transactions_status = Insert(@, k, v),
              !.blocks = Insert(@, k, v), !.blocks_meta = Insert(@, k, v),
              !.entry = Insert(@, k, v)]

\* scalar and list fields of the requests handed to the merger
MergeScalars(slices, commitments, from_slots) ==
    {[DefaultRequest EXCEPT !.accounts_data_slice = d, !.commitment = c,
                            !.from_slot = f] :
        d \in slices, c \in commitments, f \in from_slots}

\* bases: maps empty or holding "k", with or without the tracker entry
MergeBases(id) ==
    LET plain == MergeScalars({<<>>, <<1>>}, {NoneVal, 1}, {NoneVal, 7})
        user == plain \cup {WithEntryInEveryMap(r, "k", "b1") : r \in plain}
    IN user \cup {[r EXCEPT !.slots = Insert(@, id, TrackerFilter)] : r \in user}

\* updates: maps empty, or holding the base's key "k", or a new key "n";
\* with or without a slots entry under the internal id
MergeUpdates(id) ==
    LET plain == MergeScalars({<<>>, <<2>>}, {NoneVal, 2}, {NoneVal, 9})
        user == plain \cup {WithEntryInEveryMap(r, "k", "u1") : r \in plain}
                      \cup {WithEntryInEveryMap(r, "n", "u1") : r \in plain}
    IN user \cup {[r EXCEPT !.slots = Insert(@, id, "u1")] : r \in user}

\* a base in current_request and one update waiting in write_rx
MergeInit ==
    /\ impl \in Impls
    /\ replay \in BOOLEAN
    /\ max_reconnect_attempts = 0
    /\ config_valid = TRUE
    /\ current_request \in MergeBases(InternalId(impl))
    /\ \E u \in MergeUpdates(InternalId(impl)) : write_rx = <<u>>
    /\ attempt_request = DefaultRequest
    /\ commitment_level = 0
    /\ tracked_slot = 0
    /\ made_progress = FALSE
    /\ reconnect_attempts = 0
    /\ pc = "spawned"
    /\ inbound = "none"
    /\ ping_id = 0
    /\ server_sub = DefaultRequest
    /\ delivered = <<>>
    /\ cancel_sent = FALSE
    /\ has_handle = (impl = "native")
    /\ registry = {}
    /\ active_stream_count = 0
    /\ attemptNo = 0
    /\ att_fwd = FALSE
    /\ fails = 0
    /\ outcome = "none"
    /\ writes = 0
    /\ write_result = "none"
    /\ shut_down = FALSE
    /\ write_idle = FALSE
    /\ ping_failed = FALSE
    /\ lastIn = NoMsg

\* let snapshot = base.clone();
\* merge_subscribe_requests(&mut base, &update, internal_id, replay_enabled)
MergeCallNative ==
    /\ impl = "native"
    /\ write_rx # <<>>
    /\ attempt_request' = current_request
    /\ current_request' = MergeNative(current_request, Head(write_rx),
                                      InternalId(impl), replay)
    /\ write_rx' = Tail(write_rx)
    /\ UNCHANGED <<config_vars, ping_failed, write_result, shut_down,
                   write_idle, commitment_level, tracked_slot, made_progress,
                   reconnect_attempts, pc, inbound, ping_id, server_sub,
                   delivered, cancel_sent, has_handle, registry_vars,
                   attemptNo, att_fwd, fails, outcome, writes, lastIn>>

\* Self::merge_subscribe_requests(&mut current, &modification)
MergeCallNapi ==
    /\ impl = "napi"
    /\ write_rx # <<>>
    /\ attempt_request' = current_request
    /\ current_request' = MergeNapi(current_request, Head(write_rx))
    /\ write_rx' = Tail(write_rx)
    /\ UNCHANGED <<config_vars, ping_failed, write_result, shut_down,
                   write_idle, commitment_level, tracked_slot, made_progress,
                   reconnect_attempts, pc, inbound, ping_id, server_sub,
                   delivered, cancel_sent, has_handle, registry_vars,
                   attemptNo, att_fwd, fails, outcome, writes, lastIn>>

MergeNext ==
    \/ MergeCallNative
    \/ MergeCallNapi

MergeSpec == MergeInit /\ [][MergeNext]_vars

(* ------------------------- resume computations ------------------------- *)
\* highest tracked slot the resume computation is applied to
MaxSlot == 33

\* commitment values of a cached request: unset, Processed, Confirmed,
\* Finalized and one the protocol does not define
ResumeCommitments == {NoneVal, 0, 1, 2, 3}

\* cached requests at a reconnect
ResumeRequests ==
    {[DefaultRequest EXCEPT !.commitment = c, !.from_slot = f] :
        c \in ResumeCommitments, f \in {NoneVal, 7}}

\* a supervisor about to reconnect after a counted failure: any tracked slot
\* up to MaxSlot, any cached commitment; the byte adapter read its level
\* from this request when the task started
ResumeInit ==
    /\ impl \in Impls
    /\ replay \in BOOLEAN
    /\ max_reconnect_attempts = 2
    /\ config_valid = TRUE
    /\ current_request \in ResumeRequests
    /\ attempt_request = DefaultRequest
    /\ commitment_level = IF current_request.commitment = NoneVal
                          THEN 0 ELSE current_request.commitment
    /\ tracked_slot \in 0..MaxSlot
    /\ made_progress = FALSE
    /\ reconnect_attempts = 1
    /\ pc = "loop"
    /\ inbound = "none"
    /\ ping_id = 0
    /\ server_sub = DefaultRequest
    /\ write_rx = <<>>
    /\ delivered = <<>>
    /\ cancel_sent = FALSE
    /\ has_handle = TRUE
    /\ registry = {}
    /\ active_stream_count = 0
    /\ attemptNo = 1
    /\ att_fwd = FALSE
    /\ fails = 1
    /\ outcome = "connect_error"
    /\ writes = 0
    /\ write_result = "none"
    /\ shut_down = FALSE
    /\ write_idle = FALSE
    /\ ping_failed = FALSE
    /\ lastIn = NoMsg

\* native: `let mut attempt_request = current_request.clone();` and the
\* resume branch at the top of the loop
ResumeCallNative ==
    /\ impl = "native"
    /\ pc = "loop"
    /\ attempt_request' = NativeAttemptRequest(current_request,
                              reconnect_attempts, tracked_slot, replay)
    /\ pc' = "connecting"
    /\ UNCHANGED <<config_vars, ping_failed, write_result, shut_down,
                   write_idle, current_request, commitment_level,
                   tracked_slot, made_progress, reconnect_attempts, inbound,
                   ping_id, server_sub, write_rx, delivered, cancel_sent,
                   has_handle, registry_vars, attemptNo, att_fwd, fails,
                   outcome, writes, lastIn>>

\* napi: the resume computation after a failed attempt, then the snapshot
\* of the next attempt
ResumeCallNapi ==
    /\ impl = "napi"
    /\ pc = "loop"
    /\ current_request' = NapiResumeRequest(current_request, tracked_slot,
                                            commitment_level, replay)
    /\ attempt_request' = current_request'
    /\ pc' = "connecting"
    /\ UNCHANGED <<config_vars, ping_failed, write_result, shut_down,
                   write_idle, commitment_level, tracked_slot, made_progress,
                   reconnect_attempts, inbound, ping_id, server_sub, write_rx,
                   delivered, cancel_sent, has_handle, registry_vars,
                   attemptNo, att_fwd, fails, outcome, writes, lastIn>>

ResumeNext ==
    \/ ResumeCallNative
    \/ ResumeCallNapi

ResumeSpec == ResumeInit /\ [][ResumeNext]_vars

(* --------------------------- filter stripping -------------------------- *)
\* Slot events that matched the internal filter and one to three filters of
\* the caller, the internal id at any position of the list
StripMessages(id) ==
    {[variant |-> "Slot", filters |-> f, slot |-> n] :
        f \in {g \in FilterLists({id, "a", "b", "c"}) :
                  id \in Range(g) /\ Len(g) >= 2},
        n \in Slots}

\* a session that is streaming, replay enabled, nothing delivered yet
StripInit ==
    /\ impl \in Impls
    /\ replay = TRUE
    /\ max_reconnect_attempts = 2
    /\ config_valid = TRUE
    /\ current_request = PrepareRequest(impl, DefaultRequest, TRUE)
    /\ attempt_request = current_request
    /\ commitment_level = 0
    /\ tracked_slot = 0
    /\ made_progress = FALSE
    /\ reconnect_attempts = 0
    /\ pc = "streaming"
    /\ inbound = "open"
    /\ ping_id = 0
    /\ server_sub = current_request
    /\ write_rx = <<>>
    /\ delivered = <<>>
    /\ cancel_sent = FALSE
    /\ has_handle = TRUE
    /\ registry = {}
    /\ active_stream_count = 0
    /\ attemptNo = 1
    /\ att_fwd = FALSE
    /\ fails = 0
    /\ outcome = "none"
    /\ writes = 0
    /\ write_result = "none"
    /\ shut_down = FALSE
    /\ write_idle = FALSE
    /\ ping_failed = FALSE
    /\ lastIn = NoMsg

\* native: the Slot arm, then retain and yield
StripCallNative ==
    /\ impl = "native"
    /\ delivered = <<>>
    /\ \E m \in StripMessages(InternalId(impl)) :
         /\ lastIn' = m
         /\ tracked_slot' = m.slot
         /\ delivered' = Deliver(delivered,
                UpdateItem(m, NativeCleanFilters(m.filters, InternalId(impl)),
                           attemptNo))
    /\ att_fwd' = TRUE
    /\ UNCHANGED <<config_vars, ping_failed, write_result, shut_down,
                   write_idle, current_request, attempt_request,
                   commitment_level, made_progress, reconnect_attempts, pc,
                   inbound, ping_id, server_sub, write_rx, cancel_sent,
                   has_handle, registry_vars, attemptNo, fails, outcome,
                   writes>>

\* napi: the Slot arm, then position / swap_remove and the callback
StripCallNapi ==
    /\ impl = "napi"
    /\ delivered = <<>>
    /\ \E m \in StripMessages(InternalId(impl)) :
         /\ lastIn' = m
         /\ tracked_slot' = m.slot
         /\ delivered' = Deliver(delivered,
                UpdateItem(m, NapiCleanFilters(m.filters, InternalId(impl)),
                           attemptNo))
    /\ made_progress' = TRUE
    /\ att_fwd' = TRUE
    /\ UNCHANGED <<config_vars, ping_failed, write_result, shut_down,
                   write_idle, current_request, attempt_request,
                   commitment_level, reconnect_attempts, pc, inbound,
                   ping_id, server_sub, write_rx, cancel_sent, has_handle,
                   registry_vars, attemptNo, fails, outcome, writes>>

StripNext ==
    \/ StripCallNative
    \/ StripCallNapi

StripSpec == StripInit /\ [][StripNext]_vars

(* ============================== claims ================================ *)
IsUpdateAt(k) == delivered[k].kind = "update"
IsErrorAt(k) == delivered[k].kind = "error"
LastDelivered == delivered[Len(delivered)]

\* the step opens the stream of a reconnect: its first frame reaches the server
ReconnectFrameSent ==
    pc = "connecting" /\ pc' = "streaming" /\ attemptNo > 1

\* C1 (as claimed): the first frame of every attempt after the first, sent
\* with replay on and tracked slot s > 0, carries from_slot = s - 31
\* (saturating) under Processed / unset commitment and from_slot = s under
\* Confirmed or Finalized.
C1_ResumeSlotOnEveryReconnect ==
    [][(ReconnectFrameSent /\ replay /\ tracked_slot > 0)
         => /\ (server_sub'.commitment \in {NoneVal, 0}
                  => server_sub'.from_slot = SaturatingSub(tracked_slot, 31))
            /\ (server_sub'.commitment \in {1, 2}
                  => server_sub'.from_slot = tracked_slot)]_vars

\* C2: no update delivered to the caller names the internal slot-tracker id
\* among its filters.
C2_NoInternalIdDelivered ==
    \A k \in DOMAIN delivered :
        IsUpdateAt(k) => InternalId(impl) \notin Range(delivered[k].filters)

\* an update whose inbound message named the internal id next to a user id
\* has been delivered by the native engine
C2_Witness ==
    /\ impl = "native"
    /\ InternalId(impl) \in Range(lastIn.filters)
    /\ Len(lastIn.filters) > 1
    /\ delivered # <<>>
    /\ LastDelivered.kind = "update"
    /\ LastDelivered.slot = lastIn.slot

\* the cached request holds no entry of the caller
NoUserEntries(r) ==
    /\ Keys(r.slots) \subseteq {InternalId(impl)}
    /\ r.accounts = {} /\ r.transactions = {} /\ r.transactions_status = {}
    /\ r.blocks = {} /\ r.blocks_meta = {} /\ r.entry = {}

\* C3: handling an inbound Slot event whose filter list is exactly
\* [internal id] delivers nothing, and a subscription whose request is empty
\* (and was never modified) has delivered no update.
C3_InternalOnlySlotSuppressed ==
    [][/\ (lastIn'.variant = "Slot" /\ lastIn'.filters = <<InternalId(impl)>>)
            => delivered' = delivered
       /\ (NoUserEntries(current_request') /\ writes' = 0)
            => NumUpdates(delivered') = 0]_vars

\* an internal-only Slot event has just been handled and recorded
C3_Witness ==
    /\ lastIn.variant = "Slot"
    /\ lastIn.filters = <<InternalId(impl)>>
    /\ tracked_slot = lastIn.slot
    /\ NoUserEntries(current_request)

\* C4: handling an inbound message whose filters F hold the internal id and
\* at least one other id delivers exactly one update: F without the internal
\* id, every other field as received.
C4_MixedFiltersStripped ==
    [][(InternalId(impl) \in Range(lastIn'.filters) /\ Len(lastIn'.filters) > 1)
         => /\ Len(delivered') = Len(delivered) + 1
            /\ SubSeq(delivered', 1, Len(delivered)) = delivered
            /\ LET u == delivered'[Len(delivered')]
               IN /\ u.kind = "update"
                  /\ u.variant = lastIn'.variant
                  /\ u.slot = lastIn'.slot
                  /\ Range(u.filters) = Range(lastIn'.filters) \ {InternalId(impl)}
                  /\ Len(u.filters) = Len(lastIn'.filters) - 1]_vars

\* the byte adapter has delivered a Slot update received as [internal, all]
C4_Witness ==
    /\ impl = "napi"
    /\ lastIn.variant = "Slot"
    /\ lastIn.filters = <<InternalId(impl), "all">>
    /\ delivered # <<>>
    /\ LastDelivered.filters = <<"all">>

\* C5: the byte adapter invokes the callback with an error at most once,
\* only with the attempt counter at or past the effective cap, and nothing is
\* delivered after it (the error is the last item and the supervisor is gone).
C5_SingleTerminalError ==
    impl = "napi" =>
        /\ Cardinality({k \in DOMAIN delivered : IsErrorAt(k)}) <= 1
        /\ \A k \in DOMAIN delivered :
              IsErrorAt(k) =>
                 /\ k = Len(delivered)
                 /\ pc = "exited"
                 /\ reconnect_attempts >=
                        EffectiveMaxAttempts(max_reconnect_attempts)

\* the byte adapter surfaced its terminal error after delivering an update
C5_Witness ==
    /\ impl = "napi"
    /\ Len(delivered) >= 2
    /\ IsUpdateAt(1)
    /\ IsErrorAt(Len(delivered))

\* no error item lies between two delivered updates
NoErrorBetweenUpdates ==
    \A i, j, k \in DOMAIN delivered :
        (i < j /\ j < k /\ IsUpdateAt(i) /\ IsUpdateAt(k)) => ~IsErrorAt(j)

\* C6 (as claimed): in either engine, the caller sees no error item between
\* the updates of an attempt that failed mid-stream and those of the next.
C6_NoErrorBetweenAttempts == NoErrorBetweenUpdates

\* C6 (amended): in the byte adapter, the caller sees no error item between
\* the updates of an attempt that failed mid-stream and those of the next.
C6_NapiNoErrorBetweenAttempts == impl = "napi" => NoErrorBetweenUpdates

\* the byte adapter delivered an update in attempt 1, that attempt ended on a
\* mid-stream error, and attempt 2 connected and delivered an update
C6_Witness ==
    /\ impl = "napi"
    /\ Len(delivered) = 2
    /\ IsUpdateAt(1) /\ delivered[1].att = 1
    /\ IsUpdateAt(2) /\ delivered[2].att = 2
    /\ outcome = "stream_error"
    /\ pc = "streaming"

\* the attempts the claim allows: min(N, 240), one for N = 0
RetryBudget(n) ==
    IF n = 0 THEN 1 ELSE Min(n, HARD_CAP_RECONNECT_ATTEMPTS)

\* C7 (as claimed): a run of attempts that all fail without forwarding an
\* update is never longer than min(N, 240) (1 for N = 0), and when it is that
\* long the terminal error has been emitted and the supervisor has stopped.
C7_FailedRunWithinCap ==
    /\ fails <= RetryBudget(max_reconnect_attempts)
    /\ fails >= RetryBudget(max_reconnect_attempts)
         => /\ pc = "exited"
            /\ delivered # <<>>
            /\ IsErrorAt(Len(delivered))

\* the step ends an attempt on a mid-stream status error
EndsOnStreamError ==
    pc = "streaming" /\ pc' # "streaming" /\ outcome' = "stream_error"

\* C8 (as claimed): an attempt that connected and then failed with a status
\* error before forwarding anything raises the attempt counter by one, and
\* the supervisor stops with the terminal error once the counter is at the
\* effective cap.
C8_StreamErrorCounted ==
    [][(EndsOnStreamError /\ ~att_fwd)
         => /\ reconnect_attempts' = reconnect_attempts + 1
            /\ (reconnect_attempts' >=
                    EffectiveMaxAttempts(max_reconnect_attempts)
                  => pc' = "exited")]_vars

\* C9 (as claimed): when the server ends the inbound stream without an
\* error the attempt ends gracefully, the attempt counter is 0 and the
\* supervisor is in its reconnect delay.
C9_GracefulEndReconnects ==
    [][(inbound = "open" /\ inbound' = "ended")
         => /\ pc' = "delaying"
            /\ outcome' = "end"
            /\ reconnect_attempts' = 0]_vars

\* C10 (as claimed): once cancel() has returned no further update is
\* delivered.
C10_NoUpdateAfterCancel ==
    [][cancel_sent => NumUpdates(delivered') = NumUpdates(delivered)]_vars

NumErrors(log) == Cardinality({k \in DOMAIN log : log[k].kind = "error"})

\* C11 (as claimed): once cancel() has been called the supervisor emits no
\* error to the caller, whatever else is ready at the same time.
C11_NoErrorAfterCancel ==
    [][cancel_sent => NumErrors(delivered') = NumErrors(delivered)]_vars

\* C12 (as claimed): when the supervisor task has exited and the subscribe
\* call has returned (the caller holds the handle), the registry holds no
\* entry for the subscription.
C12_NoEntryAfterExit ==
    (impl = "napi" /\ pc = "exited" /\ has_handle) => StreamId \notin registry

\* C13: under fair scheduling, once cancel() has been called on the byte
\* adapter's subscription the supervisor task eventually terminates, from any
\* suspension point (connecting, streaming, reconnect delay).
C13_CancelTerminates == (impl = "napi" /\ cancel_sent) ~> (pc = "exited")

\* the supervisor has left its loop through the cancel arm after a reconnect
C13_Witness ==
    /\ impl = "napi"
    /\ cancel_sent
    /\ pc = "exited"
    /\ outcome = "cancelled"
    /\ attemptNo >= 1

\* C14 (as claimed): a call of cancel() after an earlier call, or after the
\* supervisor has terminated, changes no state: the signal is not sent again
\* and the registry and the active-stream count stay as they are.
C14_CancelIdempotent ==
    [][Cancel =>
         /\ (cancel_sent => UNCHANGED <<cancel_sent, registry_vars>>)
         /\ (pc = "exited" => UNCHANGED registry_vars)]_vars

\* a modification is taken from the channel by the session
WriteProcessed ==
    pc = "streaming" /\ write_rx # <<>> /\ write_rx' = Tail(write_rx)

\* equal but for from_slot, which the supervisor sets to the resume point
SameButFromSlot(a, b) ==
    [a EXCEPT !.from_slot = NoneVal] = [b EXCEPT !.from_slot = NoneVal]

\* C15 (as claimed): a modification m processed by a live attempt leaves
\* merge(baseline, m, internal id, replay) in the cache, merge being the
\* merger of section 4.2 (MergeNative), and the first frame of the next
\* attempt that connects is that cached request (the resume point aside).
C15_ReconnectFrameIsMerge ==
    [][/\ WriteProcessed =>
            SameButFromSlot(current_request',
                            MergeNative(current_request, Head(write_rx),
                                        InternalId(impl), replay))
       /\ ReconnectFrameSent => SameButFromSlot(server_sub', current_request)]_vars

\* the step is a call of the merger: base current_request, update
\* Head(write_rx), result current_request'
MergeCalled ==
    /\ write_rx # <<>>
    /\ write_rx' = Tail(write_rx)
    /\ attempt_request' = current_request

\* C16 (as claimed): after merging an update U, each of the seven maps holds
\* every key of U's map with exactly U's value.
C16_UpdateEntriesWin ==
    [][MergeCalled =>
         \A f \in MapFields :
            \A e \in Head(write_rx)[f] : e \in current_request'[f]]_vars

\* C16 (amended): after merging an update U, each of the seven maps holds
\* every key of U's map other than the internal slot-tracker id with exactly
\* U's value.
C16_UserEntriesOfUpdateWin ==
    [][MergeCalled =>
         \A f \in MapFields :
            \A e \in Head(write_rx)[f] :
               e[1] # InternalId(impl) => e \in current_request'[f]]_vars

\* the native merger was called with replay on, on a base holding "k" and the
\* tracker: the update's value for "k" is in the result, next to the tracker
C16_Witness ==
    /\ impl = "native"
    /\ replay
    /\ write_rx = <<>>
    /\ <<"k", "b1">> \in attempt_request.accounts
    /\ <<InternalId(impl), TrackerFilter>> \in attempt_request.slots
    /\ <<"k", "u1">> \in current_request.accounts
    /\ <<"k", "u1">> \in current_request.slots
    /\ <<InternalId(impl), TrackerFilter>> \in current_request.slots

\* C17: with replay enabled, merging any update into a request that holds
\* the internal slot-tracker entry leaves that entry in place with the value
\* it had before the merge.
C17_InternalEntryPreserved ==
    [][(MergeCalled /\ replay /\ InternalId(impl) \in Keys(current_request.slots))
         => /\ InternalId(impl) \in Keys(current_request'.slots)
            /\ Get(current_request'.slots, InternalId(impl)) =
                 Get(current_request.slots, InternalId(impl))]_vars

\* a merge with replay on has added a slots entry "n" of the update to a
\* base that held the tracker entry, which is still there
C17_Witness ==
    /\ replay
    /\ write_rx = <<>>
    /\ <<InternalId(impl), TrackerFilter>> \in attempt_request.slots
    /\ "n" \notin Keys(attempt_request.slots)
    /\ <<"n", "u1">> \in current_request.slots
    /\ <<InternalId(impl), TrackerFilter>> \in current_request.slots

\* C18 (as claimed): a merge keeps every entry of the base whose key the
\* update's map does not hold, and an update with nothing set leaves the
\* base unchanged.
C18_MergeKeepsOtherEntries ==
    [][MergeCalled =>
         /\ \A f \in MapFields :
               \A e \in current_request[f] :
                  e[1] \notin Keys(Head(write_rx)[f]) => e \in current_request'[f]
         /\ Head(write_rx) = DefaultRequest
               => current_request' = current_request]_vars

\* C19 (as claimed): with replay enabled, during a live attempt the
\* subscription last sent to the server (first frame or latest modification
\* frame) holds the internal slot-tracker entry.
C19_TrackerInForceAtServer ==
    (replay /\ pc = "streaming") => InternalId(impl) \in Keys(server_sub.slots)

\* the inbound message of this step has to reach the caller
Forwardable(m) ==
    /\ m.variant \notin {"None", "Ping", "Pong"}
    /\ ~(m.variant = "Slot" /\ m.filters = <<InternalId(impl)>>)

C21_DeliveredInArrivalOrder ==
    [][/\ Len(delivered') >= Len(delivered)
       /\ \A k \in 1..Len(delivered) : delivered'[k] = delivered[k]
       /\ \A k \in (Len(delivered) + 1)..Len(delivered') :
            delivered'[k].kind = "update" =>
                /\ k = Len(delivered) + 1
                /\ delivered'[k].variant = lastIn'.variant
                /\ delivered'[k].slot = lastIn'.slot
                /\ delivered'[k].att = attemptNo
                /\ \A j \in 1..Len(delivered) : delivered[j].att <= attemptNo]_vars

\* slot 50 and then slot 20 arrived in one attempt and the caller has them
\* in that order
C21_Witness ==
    /\ Len(delivered) = 2
    /\ IsUpdateAt(1) /\ IsUpdateAt(2)
    /\ delivered[1].variant = "Slot" /\ delivered[1].slot = 50
    /\ delivered[2].variant = "Slot" /\ delivered[2].slot = 20
    /\ delivered[1].att = delivered[2].att
    /\ lastIn.variant = "Slot" /\ lastIn.slot = 20

\* C22: an inbound Ping or Pong is never delivered to the caller and does not
\* set the progress flag: the step that receives one leaves what the caller
\* has, and the record that the attempt forwarded something, as they were,
\* and no item the caller has is a Ping or a Pong.
C22_ControlFramesNotForwarded ==
    [][/\ IsControl(lastIn') =>
            /\ delivered' = delivered
            /\ made_progress' = made_progress
            /\ att_fwd' = att_fwd
       /\ \A k \in DOMAIN delivered' :
            delivered'[k].variant \notin {"Ping", "Pong"}]_vars

\* a Pong arrived in an attempt of the byte adapter that has forwarded
\* nothing: the progress flag is still clear
C22_Witness ==
    /\ impl = "napi"
    /\ pc = "streaming"
    /\ lastIn.variant = "Pong"
    /\ ~made_progress
    /\ delivered = <<>>

\* the first frame of an attempt reaches the server
InitialFrameSent == pc = "connecting" /\ pc' = "streaming"

\* C23: with replay disabled, the initial request frame of every attempt,
\* the first and every reconnect, also after a write whose request sets
\* from_slot, has from_slot unset and holds no internal slot-tracker entry.
C23_NoResumeWithoutReplay ==
    [][(~replay /\ InitialFrameSent) =>
            /\ server_sub' = attempt_request
            /\ server_sub'.from_slot = NoneVal
            /\ \A k \in Keys(server_sub'.slots) :
                 k # InternalId(impl) /\ ~HasTrackerPrefix(k)]_vars

\* replay is off, a write that set from_slot was merged into the cached
\* request during the first attempt, and the second attempt's frame is at the
\* server without it
C23_Witness ==
    /\ ~replay
    /\ impl = "native"
    /\ attemptNo = 2
    /\ pc = "streaming"
    /\ writes = 1 /\ write_rx = <<>>
    /\ current_request.from_slot = 9
    /\ server_sub = attempt_request
    /\ server_sub.from_slot = NoneVal

\* a write() call returns
WriteReturned == writes' = writes + 1

C25_InvalidConfigIsFatal ==
    ~config_valid =>
        /\ pc # "delaying"
        /\ attemptNo <= 1

\* C26: once shutdown_all_streams() has returned with the subscription
\* registered, the cancellation signal of the subscription has been sent,
\* and from then on the registry is empty and the active-stream count is 0:
\* the unregister calls made later by the supervisor or the handle change
\* neither.
C26_ShutdownLeavesNothingActive ==
    shut_down =>
        /\ registry = {}
        /\ active_stream_count = 0
        /\ cancel_sent

\* after the shutdown the supervisor observed the cancellation and
\* unregistered
C26_Witness ==
    /\ shut_down
    /\ pc = "exited"
    /\ has_handle
    /\ registry = {}
    /\ active_stream_count = 0
    /\ attemptNo = 1

\* C27: the tracked slot never decreases during the subscription's lifetime:
\* whatever the order of the slot numbers of the inbound Slot events, no
\* step lowers it, and a step that receives a Slot event leaves it at least
\* as high as that event's slot.
C27_TrackedSlotNeverDecreases ==
    [][/\ tracked_slot' >= tracked_slot
       /\ (lastIn'.variant = "Slot" /\ (impl = "napi" \/ replay)) =>
            tracked_slot' >= lastIn'.slot]_vars

\* C28: after a merge the base's accounts_data_slice list is its previous
\* list followed by the update's list, in order.
C28_DataSliceAppended ==
    [][MergeCalled =>
            current_request'.accounts_data_slice =
                current_request.accounts_data_slice
                    \o Head(write_rx).accounts_data_slice]_vars

\* C29: for each of the scalar fields commitment and from_slot, after a merge
\* the base holds the update's value when the update sets the field and its
\* own previous value when the update leaves it unset.
C29_ScalarsOverwrittenWhenSet ==
    [][MergeCalled =>
            /\ current_request'.commitment =
                 IF Head(write_rx).commitment # NoneVal
                 THEN Head(write_rx).commitment
                 ELSE current_request.commitment
            /\ current_request'.from_slot =
                 IF Head(write_rx).from_slot # NoneVal
                 THEN Head(write_rx).from_slot
                 ELSE current_request.from_slot]_vars

\* the attempt ends in an error of the connection or of the stream
AttemptFailed ==
    /\ pc \in {"connecting", "streaming"}
    /\ pc' \in {"delaying", "exited"}
    /\ outcome' \in {"connect_error", "stream_error", "send_error"}

\* C30: when an attempt that forwarded at least one update ends in error the
\* attempt counter becomes 1 whatever it was; when an attempt that forwarded
\* none ends in error the counter becomes its previous value plus 1; and the
\* progress flag is false when an attempt starts.
C30_CounterAfterFailedAttempt ==
    [][/\ AttemptFailed =>
            reconnect_attempts' =
                IF att_fwd THEN 1 ELSE reconnect_attempts + 1
       /\ (pc = "loop" /\ pc' = "connecting") => ~made_progress']_vars

\* the commitment of a request, Processed when unset
LevelOf(r) == IF r.commitment = NoneVal THEN 0 ELSE r.commitment

\* the reconnect frame being sent carries a resume point computed by the
\* supervisor: always in the byte adapter, after a counted failure in the
\* native one
ResumePointApplied ==
    /\ ReconnectFrameSent
    /\ replay
    /\ tracked_slot > 0
    /\ (impl = "native" => reconnect_attempts > 0)

\* C31: the resume point of a reconnect is computed under the commitment the
\* cached request has at that reconnect: after a merged write changed the
\* commitment, from_slot is s - 31 (saturating) when the cached commitment is
\* Processed or unset and s when it is Confirmed or Finalized.
C31_ResumeUnderCachedCommitment ==
    [][ResumePointApplied =>
            server_sub'.from_slot =
                IF LevelOf(current_request) \in {1, 2}
                THEN tracked_slot
                ELSE SaturatingSub(tracked_slot, 31)]_vars

\* C32: for a tracked slot s > 0 with replay enabled the resume slot neither
\* underflows nor exceeds s: Processed (or unset) gives max(s - 31, 0),
\* Confirmed and Finalized give s, any other commitment gives max(s - 31, 0).
C32_ResumeSlotByCommitment ==
    [][(pc = "loop" /\ pc' = "connecting" /\ replay /\ tracked_slot > 0) =>
            /\ attempt_request'.from_slot >= 0
            /\ attempt_request'.from_slot <= tracked_slot
            /\ attempt_request'.from_slot =
                 IF current_request.commitment \in {1, 2}
                 THEN tracked_slot
                 ELSE IF tracked_slot < 31 THEN 0 ELSE tracked_slot - 31]_vars

\* C33: with replay enabled, when the tracked slot is still 0 at a reconnect
\* the first frame of the next attempt has from_slot unset, even when the
\* caller's request supplied one.
C33_NoResumePointWithoutSlot ==
    [][(ReconnectFrameSent /\ replay /\ tracked_slot = 0) =>
            server_sub'.from_slot = NoneVal]_vars

\* the supervisor takes the snapshot of the cached request for an attempt
SnapshotTaken == pc = "loop" /\ pc' = "connecting"

\* C34: a write that arrives while no session is connected (in the reconnect
\* delay or while connecting) is merged into the cached request before the
\* snapshot of the next attempt is taken, and so is never pushed to the
\* server as a follow-up frame on an open stream.
C34_IdleWriteMergedBeforeSnapshot ==
    [][write_idle =>
            /\ SnapshotTaken => write_rx = <<>>
            /\ ~WriteProcessed]_vars

\* the entries of the caller in the seven filter maps of a request
UserEntries(r) ==
    [f \in MapFields |-> {e \in r[f] : e[1] # InternalId(impl)}]

\* C35: the cached request stays in sync with the subscription in force at
\* the server: when a write is processed on a live attempt and its frame is
\* pushed, the caller's filter entries of the cached request (all seven
\* maps, the internal slot entry aside) equal those of the frame.
C35_CacheInSyncWithServer ==
    [][(WriteProcessed /\ pc' = "streaming") =>
            /\ server_sub' = Head(write_rx)
            /\ UserEntries(current_request') = UserEntries(server_sub')]_vars

\* every filter entry of request u, and its commitment when set, is in r
ContainsModification(r, u) ==
    /\ \A f \in MapFields : u[f] \subseteq r[f]
    /\ u.commitment # NoneVal => r.commitment = u.commitment

\* C36: a modification taken from the handle is merged into the cached
\* request before its frame is pushed, whether or not the push succeeds;
\* from the end of an attempt to the first frame of the next one the cached
\* filters and commitment do not change, and that first frame carries them:
\* so after a failed push the attempt ends and the next attempt's first
\* frame contains the modification.
C36_ModificationSurvivesFailedPush ==
    [][/\ WriteProcessed =>
            /\ ContainsModification(current_request', Head(write_rx))
            /\ pc' # "streaming" =>
                 /\ pc' \in {"delaying", "exited"}
                 /\ server_sub' = server_sub
       /\ (pc \in {"delaying", "loop", "connecting"} /\ attemptNo > 0) =>
            /\ UserEntries(current_request') = UserEntries(current_request)
            /\ current_request'.commitment = current_request.commitment
       /\ InitialFrameSent =>
            /\ \A f \in MapFields : server_sub'[f] = current_request[f]
            /\ server_sub'.commitment = current_request.commitment]_vars

\* the push of a modification failed in the first attempt: the server never
\* had it, and the request built for the second attempt contains it
C36_Witness ==
    /\ attemptNo = 2
    /\ pc = "connecting"
    /\ outcome = "send_error"
    /\ writes = 1 /\ write_rx = <<>>
    /\ <<"tx", "f2">> \in attempt_request.transactions
    /\ <<"tx", "f2">> \notin server_sub.transactions

\* C37: when sending a periodic Ping frame fails the current attempt ends:
\* no attempt keeps streaming after one of its Ping frames could not be
\* sent.
C37_PingSendFailureEndsAttempt ==
    ping_failed => pc # "streaming"

\* C38: cancellation interrupts the reconnect delay: once cancel has been
\* called while the supervisor is in the delay, the supervisor's next step
\* is its termination; it neither waits the delay out nor starts another
\* attempt.
C38_CancelInterruptsDelay ==
    [][(impl = "napi" /\ cancel_sent /\ pc = "delaying" /\ pc' # pc) =>
            pc' = "exited"]_vars

\* the position of e in the duplicate-free list s
PosIn(s, e) == CHOOSE i \in DOMAIN s : s[i] = e

\* C39: when the internal id is stripped from a forwarded Slot update's
\* filter list, wherever it stands in the list, the caller's filter ids are
\* all kept and keep their relative order.
C39_StripKeepsOrder ==
    [][(lastIn'.variant = "Slot" /\ Len(delivered') = Len(delivered) + 1
            /\ InternalId(impl) \in Range(lastIn'.filters)) =>
        LET out == delivered'[Len(delivered')].filters
        IN /\ Range(out) = Range(lastIn'.filters) \ {InternalId(impl)}
           /\ Len(out) = Len(lastIn'.filters) - 1
           /\ \A i, j \in DOMAIN out :
                i < j => PosIn(lastIn'.filters, out[i])
                            < PosIn(lastIn'.filters, out[j])]_vars

\* C40: whenever no registry operation is in progress the active-stream
\* count equals the number of entries of the registry and has not wrapped
\* below zero, whatever the interleaving of register, handle cancel,
\* supervisor exit and shutdown.
C40_CountMatchesRegistry ==
    /\ active_stream_count = Cardinality(registry)
    /\ active_stream_count >= 0

\* the supervisor ended and unregistered before the subscription was
\* registered: its unregister found nothing, and the later registration is
\* counted once
C40_Witness ==
    /\ impl = "napi"
    /\ pc = "exited"
    /\ ~cancel_sent
    /\ ~shut_down
    /\ registry = {StreamId}
    /\ active_stream_count = 1

====
